---- MODULE Spec2Model ----
(***************************************************************************)
(* Model of src/_modules/profile.py: the salt execution module that        *)
(* manages macOS configuration profiles.  The module is Python 2 code      *)
(* (dict.iteritems, plistlib.writePlistToString).                          *)
(*                                                                         *)
(* Python values are modelled as tagged pairs of strings, so that values   *)
(* of different Python types stay distinct and comparable:                 *)
(*   <<"str", s>>, <<"bool", "true"|"false">>, <<"int", digits>>,          *)
(*   <<"none", "">>, and <<"array", sequence of dicts>> for a list.        *)
(* A Python dict is a function from its keys (strings) to such values.     *)
(***************************************************************************)
EXTENDS Integers, Sequences, FiniteSets, TLC

VARIABLES
    fs,         \* the paths that exist under the temporary directory root
    installed,  \* the document the listing command writes on this machine;
                \* the install and remove commands change it
    args,       \* the arguments the caller passes to generate
    content,    \* the caller's content list (a list of payload dicts), which
                \* it passes to generate as the content argument
    last        \* the most recent call: its arguments and what it did

vars == <<fs, installed, args, content, last>>

----------------------------------------------------------------------------
(* Bounds of the model *)

\* longest content list handed to generate
MaxContent == 2
\* longest list of installed-profile records under one inventory domain
MaxRecords == 2

----------------------------------------------------------------------------
(* Python values and dicts *)

Str(s) == <<"str", s>>
IntV(s) == <<"int", s>>
True == <<"bool", "true">>
False == <<"bool", "false">>
None == <<"none", "">>
Array(items) == <<"array", items>>

EmptyDict == [k \in {} |-> None]
Put(d, k, v) == (k :> v) @@ d
Del(d, k) == [x \in DOMAIN d \ {k} |-> d[x]]
Has(d, k) == k \in DOMAIN d

Range(s) == {s[i] : i \in 1..Len(s)}

\* Python truthiness of an optional string argument: None and '' are falsy
Truthy(v) == ~(v = None \/ v = Str(""))

----------------------------------------------------------------------------
(* plistlib.writePlistToString *)

\* Every dict key of the model, in the order Python 2 sorts strings (by byte);
\* plistlib's writeDict sorts the items of a dict before writing them.
KeyOrder ==
    << "ADAllowMultiDomainAuth", "ADAllowMultiDomainAuthFlag",
       "ADCreateMobileAccountAtLogin", "ADCreateMobileAccountAtLoginFlag",
       "ADDefaultUserShell", "ADDefaultUserShellFlag",
       "ADDomainAdminGroupList", "ADDomainAdminGroupListFlag",
       "ADForceHomeLocal", "ADForceHomeLocalFlag",
       "ADNamespace", "ADNamespaceFlag",
       "ADPacketEncrypt", "ADPacketEncryptFlag",
       "ADPacketSign", "ADPacketSignFlag",
       "ADPreferredDCServer", "ADPreferredDCServerFlag",
       "ADRestrictDDNS", "ADRestrictDDNSFlag",
       "ADTrustChangePassIntervalDays", "ADTrustChangePassIntervalDaysFlag",
       "ADUseWindowsUNCPath", "ADUseWindowsUNCPathFlag",
       "ADWarnUserBeforeCreatingMA", "ADWarnUserBeforeCreatingMAFlag",
       "PayloadContent", "PayloadDescription", "PayloadDisplayName",
       "PayloadEnabled", "PayloadIdentifier", "PayloadOrganization",
       "PayloadRemovalDisallowed", "PayloadScope", "PayloadType",
       "PayloadUUID", "PayloadVersion",
       "consenttext", "durationuntilremoval", "removaldate", "scope" >>

RECURSIVE WriteItems(_, _, _)
RECURSIVE WriteArrayFrom(_, _)

\* one value as a plist element
WriteValue(v) ==
    CASE v[1] = "str" -> "<string>" \o v[2] \o "</string>"
      [] v[1] = "int" -> "<integer>" \o v[2] \o "</integer>"
      [] v[1] = "bool" -> IF v[2] = "true" THEN "<true/>" ELSE "<false/>"
      [] v[1] = "array" -> "<array>" \o WriteArrayFrom(v[2], 1) \o "</array>"

\* the items of dict d under keys[i..]
WriteItems(d, keys, i) ==
    IF i > Len(keys) THEN ""
    ELSE "<key>" \o keys[i] \o "</key>" \o WriteValue(d[keys[i]])
             \o WriteItems(d, keys, i + 1)

\* writeDict: the items of d, sorted by key
WriteDict(d) ==
    "<dict>"
        \o WriteItems(d, SelectSeq(KeyOrder, LAMBDA k : k \in DOMAIN d), 1)
        \o "</dict>"

WriteArrayFrom(items, i) ==
    IF i > Len(items) THEN ""
    ELSE WriteDict(items[i]) \o WriteArrayFrom(items, i + 1)

\* The XML text of a dict.  Indentation and line breaks, which plistlib adds
\* and which depend only on nesting depth, are left out.
writePlistToString(d) ==
    "<?xml version=\"1.0\" encoding=\"UTF-8\"?><plist version=\"1.0\">"
        \o WriteDict(d) \o "</plist>"

----------------------------------------------------------------------------
(* _content_to_uuid *)

\* hashlib.md5 followed by binascii.hexlify and the 8-4-4-4-12 grouping.  MD5
\* is modelled as an ideal hash: the digest is a term over the hashed text, so
\* equal texts give equal digests and different texts different digests.
Md5Uuid(text) == "md5uuid(" \o text \o ")"

_content_to_uuid(payload) == Md5Uuid(writePlistToString(payload))

----------------------------------------------------------------------------
(* _add_activedirectory_keys *)

needs_flag ==
    << "ADAllowMultiDomainAuth", "ADCreateMobileAccountAtLogin",
       "ADDefaultUserShell", "ADDomainAdminGroupList", "ADForceHomeLocal",
       "ADNamespace", "ADPacketEncrypt", "ADPacketSign",
       "ADPreferredDCServer", "ADRestrictDDNS",
       "ADTrustChangePassIntervalDays", "ADUseWindowsUNCPath",
       "ADWarnUserBeforeCreatingMA" >>

\* The loop over payload.keys().  For the first key k found in needs_flag the
\* body evaluates needs_flag[k]: a Python list subscripted by a string, which
\* raises TypeError before anything is assigned.  Which key comes first does
\* not matter: the payload is left as it was.
_add_activedirectory_keys(payload) ==
    IF \E k \in DOMAIN payload : k \in Range(needs_flag)
    THEN [status |-> "TypeError", payload |-> payload]
    ELSE [status |-> "ok", payload |-> payload]

----------------------------------------------------------------------------
(* _transform_payload, _transform_content *)

DirectoryServiceType == "com.apple.DirectoryService.managed"

\* Mutant of _transform_payload: the stale PayloadUUID is not deleted before
\* the payload is hashed.
TransformPayloadHashingStaleUUID(payload, identifier) ==
    LET hashed_uuid == _content_to_uuid(payload)
        p2 == IF ~Has(payload, "PayloadIdentifier")
              THEN Put(payload, "PayloadIdentifier",
                       Str(identifier \o "." \o hashed_uuid))
              ELSE payload
        p5 == Put(Put(Put(p2, "PayloadUUID", Str(hashed_uuid)),
                      "PayloadEnabled", True), "PayloadVersion", IntV("1"))
    IN  IF p5["PayloadType"] = Str(DirectoryServiceType)
        THEN _add_activedirectory_keys(p5)
        ELSE [status |-> "ok", payload |-> p5]

\* The payload dict is edited in place: the result's payload is the state of
\* the caller's dict when the function returns or raises.
_transform_payload(payload, identifier) ==
    LET p1 == IF Has(payload, "PayloadUUID")
              THEN Del(payload, "PayloadUUID") ELSE payload
        hashed_uuid == _content_to_uuid(p1)
        p2 == IF ~Has(p1, "PayloadIdentifier")
              THEN Put(p1, "PayloadIdentifier",
                       Str(identifier \o "." \o hashed_uuid))
              ELSE p1
        p3 == Put(p2, "PayloadUUID", Str(hashed_uuid))
        p4 == Put(p3, "PayloadEnabled", True)
        p5 == Put(p4, "PayloadVersion", IntV("1"))
    IN  IF ~Has(p5, "PayloadType")
        THEN [status |-> "KeyError", payload |-> p5]
        ELSE IF p5["PayloadType"] = Str(DirectoryServiceType)
             THEN _add_activedirectory_keys(p5)
             ELSE [status |-> "ok", payload |-> p5]

\* The list comprehension from position i on.  items is the caller's list;
\* every position holds a dict of its own.  entered counts the payloads that
\* _transform_payload was called on.
RECURSIVE TransformFrom(_, _, _)
TransformFrom(items, i, identifier) ==
    IF i > Len(items)
    THEN [status |-> "ok", items |-> items, entered |-> Len(items)]
    ELSE LET r == _transform_payload(items[i], identifier)
             edited == [items EXCEPT ![i] = r.payload]
         IN  IF r.status # "ok"
             THEN [status |-> r.status, items |-> edited, entered |-> i]
             ELSE TransformFrom(edited, i + 1, identifier)

\* c is the content argument: [isNone, items].  transformed is the returned
\* list (it holds the caller's own, edited, dicts); items is the caller's list
\* afterwards.
_transform_content(c, identifier) ==
    IF c.isNone \/ c.items = <<>>
    THEN [status |-> "ok", transformed |-> <<>>, items |-> c.items,
          entered |-> 0]
    ELSE LET r == TransformFrom(c.items, 1, identifier)
         IN  [status |-> r.status,
              transformed |-> IF r.status = "ok" THEN r.items ELSE <<>>,
              items |-> r.items, entered |-> r.entered]

----------------------------------------------------------------------------
(* generate *)

VALID_PROPERTIES ==
    {"description", "displayname", "organization", "content",
     "removaldisallowed", "scope", "removaldate", "durationuntilremoval",
     "consenttext"}

OrchestrationKeys ==
    {"__id__", "fun", "state", "__env__", "__sls__", "order", "watch",
     "watch_in", "require", "require_in", "prereq", "prereq_in"}

\* Mutant of SetProperty: a key without a branch of its own is copied into the
\* document under its own name.
SetPropertyCopyingOthers(document, k, v, payload_content) ==
    IF k = "content"
    THEN Put(document, "PayloadContent", Array(payload_content))
    ELSE IF k = "description" THEN Put(document, "PayloadDescription", v)
    ELSE IF k = "displayname" THEN Put(document, "PayloadDisplayName", v)
    ELSE IF k = "organization" THEN Put(document, "PayloadOrganization", v)
    ELSE IF k = "removaldisallowed"
         THEN Put(document, "PayloadRemovalDisallowed",
                  IF v = True THEN True ELSE False)
    ELSE Put(document, k, v)

\* Mutant of SetProperty: the documented option scope is given a branch, which
\* stores it as PayloadScope.
SetPropertyMappingScope(document, k, v, payload_content) ==
    IF k \in OrchestrationKeys THEN document
    ELSE IF k = "content"
         THEN Put(document, "PayloadContent", Array(payload_content))
    ELSE IF k = "description" THEN Put(document, "PayloadDescription", v)
    ELSE IF k = "displayname" THEN Put(document, "PayloadDisplayName", v)
    ELSE IF k = "organization" THEN Put(document, "PayloadOrganization", v)
    ELSE IF k = "removaldisallowed"
         THEN Put(document, "PayloadRemovalDisallowed",
                  IF v = True THEN True ELSE False)
    ELSE IF k = "scope" THEN Put(document, "PayloadScope", v)
    ELSE document

\* the body of the loop over validkwargs, for one key k with value v
SetProperty(document, k, v, payload_content) ==
    IF k \in OrchestrationKeys THEN document
    ELSE IF k = "content"
         THEN Put(document, "PayloadContent", Array(payload_content))
    ELSE IF k = "description" THEN Put(document, "PayloadDescription", v)
    ELSE IF k = "displayname" THEN Put(document, "PayloadDisplayName", v)
    ELSE IF k = "organization" THEN Put(document, "PayloadOrganization", v)
    ELSE IF k = "removaldisallowed"
         THEN Put(document, "PayloadRemovalDisallowed",
                  IF v = True THEN True ELSE False)
    ELSE document

\* The loop over validkwargs.  Every key writes a document key of its own, so
\* the order in which the dict yields its keys does not show in the result.
RECURSIVE SetProperties(_, _, _, _)
SetProperties(document, keys, options, payload_content) ==
    IF keys = {} THEN document
    ELSE LET k == CHOOSE x \in keys : TRUE
             v == IF k = "content" THEN None ELSE options[k]
         IN  SetProperties(SetProperty(document, k, v, payload_content),
                           keys \ {k}, options, payload_content)

\* kwargs is given in two parts: options, the keyword arguments other than
\* content, and c = [isNone, items], the content argument when hasContent.
\* uuid4 is the value uuid.uuid4() returns if it is called.
generate(identifier, profile_uuid, uuid4, options, hasContent, c) ==
    LET uuid == IF ~Truthy(profile_uuid) THEN uuid4 ELSE profile_uuid[2]
        kwargs == DOMAIN options \cup (IF hasContent THEN {"content"} ELSE {})
        validkwargs == kwargs \cap VALID_PROPERTIES
        base == [k \in {"PayloadScope", "PayloadUUID", "PayloadVersion",
                        "PayloadType", "PayloadIdentifier"} |->
                   CASE k = "PayloadScope" -> Str("System")
                     [] k = "PayloadUUID" -> Str(uuid)
                     [] k = "PayloadVersion" -> IntV("1")
                     [] k = "PayloadType" -> Str("Configuration")
                     [] k = "PayloadIdentifier" -> Str(identifier)]
        t == IF "content" \in validkwargs
             THEN _transform_content(c, identifier)
             ELSE [status |-> "ok", transformed |-> <<>>, items |-> c.items,
                   entered |-> 0]
        document == SetProperties(base, validkwargs, options, t.transformed)
    IN  IF t.status # "ok"
        THEN [outcome |-> "raise", error |-> t.status, document |-> EmptyDict,
              ret |-> None, items |-> t.items, entered |-> t.entered]
        ELSE [outcome |-> "return", error |-> "", document |-> document,
              ret |-> Str(writePlistToString(document)), items |-> t.items,
              entered |-> t.entered]

----------------------------------------------------------------------------
(* items, exists, install, remove *)

\* tempfile.mkdtemp('.profiles') with the n-th name, and the file inside it
TmpDir(n) == "/tmp/tmp" \o n \o ".profiles"
TmpFile(n) == TmpDir(n) \o "/profiles.plist"

\* n: the name mkdtemp picked; status: the exit status of the listing command;
\* wrote: whether the command created the output file; output: the document
\* the command wrote; files: the paths that exist before the call.
\* plistlib.readPlist opens the file: when the command exited 0 without
\* creating it, the open raises IOError, before os.unlink and os.rmdir.
items(n, status, wrote, output, files) ==
    LET tmpdir == TmpDir(n)
        tmpfile == TmpFile(n)
        made == files \cup {tmpdir}
        ran == IF wrote THEN made \cup {tmpfile} ELSE made
        run == [cmds |-> << "/usr/bin/profiles -P -o " \o tmpfile >>,
                statuses |-> << status >>, tmpdir |-> tmpdir]
    IN  IF ~(status = 0)
        THEN [outcome |-> "raise",
              error |-> "Failed to read profiles or write to temporary file",
              profiles |-> EmptyDict, fs |-> ran] @@ run
        ELSE IF tmpfile \notin ran
        THEN [outcome |-> "raise", error |-> "IOError",
              profiles |-> EmptyDict, fs |-> ran] @@ run
        ELSE [outcome |-> "return", error |-> "", profiles |-> output,
              fs |-> (ran \ {tmpfile}) \ {tmpdir}] @@ run

\* Mutant of ScanRecords: only the record at position i is compared.
ScanRecordsFirstOnly(payload_content, i, identifier) ==
    /\ i <= Len(payload_content)
    /\ payload_content[i]["ProfileIdentifier"] = Str(identifier)

\* the inner loop of exists over one domain's records, from position i on
RECURSIVE ScanRecords(_, _, _)
ScanRecords(payload_content, i, identifier) ==
    IF i > Len(payload_content) THEN FALSE
    ELSE IF payload_content[i]["ProfileIdentifier"] = Str(identifier) THEN TRUE
    ELSE ScanRecords(payload_content, i + 1, identifier)

\* the outer loop of exists over the domains not yet visited
RECURSIVE ScanDomains(_, _, _)
ScanDomains(profiles, domains, identifier) ==
    IF domains = {} THEN FALSE
    ELSE LET domain == CHOOSE d \in domains : TRUE
         IN  IF ScanRecords(profiles[domain], 1, identifier) THEN TRUE
             ELSE ScanDomains(profiles, domains \ {domain}, identifier)

exists(identifier, n, status, wrote, output, files) ==
    LET r == items(n, status, wrote, output, files)
    IN  IF r.outcome = "raise" THEN [ret |-> None] @@ r
        ELSE [ret |-> IF ScanDomains(r.profiles, DOMAIN r.profiles, identifier)
                      THEN True ELSE False] @@ r

\* Mutant of install: a non-zero exit status is reported by returning False.
InstallReturningFalse(path, status) ==
    [outcome |-> "return", error |-> "",
     ret |-> IF status = 0 THEN True ELSE False,
     cmds |-> << "/usr/bin/profiles -I -F " \o path >>,
     statuses |-> << status >>]

install(path, status) ==
    LET run == [cmds |-> << "/usr/bin/profiles -I -F " \o path >>,
                statuses |-> << status >>]
    IN  IF ~(status = 0)
        THEN [outcome |-> "raise", ret |-> None,
              error |-> "Failed to install profile at path: " \o path] @@ run
        ELSE [outcome |-> "return", ret |-> True, error |-> ""] @@ run

\* Mutant of remove: the command is run a second time after it failed.
RemoveRetrying(identifier, status) ==
    LET cmd == "/usr/bin/profiles -R -p " \o identifier
    IN  IF ~(status = 0)
        THEN [outcome |-> "raise", ret |-> None,
              error |-> "Failed to remove profile with identifier: "
                            \o identifier,
              cmds |-> << cmd, cmd >>, statuses |-> << status, status >>]
        ELSE [outcome |-> "return", ret |-> True, error |-> "",
              cmds |-> << cmd >>, statuses |-> << status >>]

remove(identifier, status) ==
    LET run == [cmds |-> << "/usr/bin/profiles -R -p " \o identifier >>,
                statuses |-> << status >>]
    IN  IF ~(status = 0)
        THEN [outcome |-> "raise", ret |-> None,
              error |-> "Failed to remove profile with identifier: "
                            \o identifier] @@ run
        ELSE [outcome |-> "return", ret |-> True, error |-> ""] @@ run

----------------------------------------------------------------------------
(* Inputs *)

Identifiers == {"com.example.a", "com.example.b"}
Paths == {"/tmp/a.mobileconfig", "/tmp/b.mobileconfig"}
ExitStatuses == {0, 1}
\* the random parts of the names tempfile.mkdtemp may pick
TmpNames == {"Ab3xYz", "q9WmK2"}

SuppliedUUID == "11111111-1111-1111-1111-111111111111"
ProfileUUIDArgs == {None, Str(""), Str(SuppliedUUID)}
\* what uuid.uuid4() may return
RandomUUIDs == {"uuid4-0001", "uuid4-0002"}

StaleUUID == "00000000-0000-0000-0000-000000000000"

PayloadInputs ==
    LET types == {DirectoryServiceType, "com.apple.dock"}
        common == { EmptyDict,
                    "PayloadUUID" :> Str(StaleUUID),
                    ("PayloadUUID" :> Str(StaleUUID))
                      @@ ("PayloadIdentifier" :> Str("com.example.custom"))
                      @@ ("PayloadEnabled" :> False)
                      @@ ("PayloadVersion" :> IntV("2")) }
        adkeys == { EmptyDict,
                    ("ADDefaultUserShell" :> Str("/bin/zsh"))
                      @@ ("ADNamespace" :> Str("domain")) }
    IN  { ("PayloadType" :> Str(t)) @@ c @@ a :
              t \in types, c \in common, a \in adkeys }

ContentLists == UNION { [1..n -> PayloadInputs] : n \in 0..MaxContent }

DictOf(keys, v) == [k \in keys |-> v]

\* keyword arguments other than content: none, some groups of them, or all
OptionInputs ==
    LET mapped == DictOf({"description", "displayname", "organization"},
                         Str("text"))
        unmapped == DictOf({"scope", "removaldate", "durationuntilremoval",
                            "consenttext"}, Str("User"))
        passed == DictOf(OrchestrationKeys \cup {"unrecognized"}, Str("x"))
    IN  { EmptyDict, unmapped, passed,
          "removaldisallowed" :> Str("yes"),
          ("removaldisallowed" :> True) @@ mapped @@ unmapped @@ passed }

\* The arguments of generate.  ckind tells what is passed as content: nothing
\* ("absent"), None ("none") or the caller's list ("list").
GenerateArgs(options, ckinds) ==
    [identifier : Identifiers, profile_uuid : ProfileUUIDArgs,
     options : options, ckind : ckinds]

Domains == {"_computerlevel", "admin"}
InstalledIdentifiers == {"com.example.a", "com.example.c"}
Records == { "ProfileIdentifier" :> Str(i) : i \in InstalledIdentifiers }
RecordLists == UNION { [1..n -> Records] : n \in 0..MaxRecords }
\* what the listing command may write: any domains, each with records
Inventories == UNION { [D -> RecordLists] : D \in SUBSET Domains }

----------------------------------------------------------------------------
(* The state machine *)

NoArgs ==
    [identifier |-> "", profile_uuid |-> None, options |-> EmptyDict,
     ckind |-> "absent"]

NoCall ==
    [op |-> "none", arg |-> "", outcome |-> "none", error |-> "",
     ret |-> None, cmds |-> <<>>, statuses |-> <<>>, tmpdir |-> "",
     profiles |-> EmptyDict, profile_uuid |-> None, options |-> EmptyDict,
     ckind |-> "absent", input |-> <<>>, entered |-> 0,
     document |-> EmptyDict]

\* the record of a call: the fields of r, the others as in NoCall
Call(op, arg, r) ==
    [f \in DOMAIN NoCall |->
        IF f = "op" THEN op
        ELSE IF f = "arg" THEN arg
        ELSE IF f \in DOMAIN r THEN r[f] ELSE NoCall[f]]

Items ==
    \E n \in TmpNames, status \in ExitStatuses, wrote \in BOOLEAN :
        /\ TmpDir(n) \notin fs
        /\ LET r == items(n, status, wrote, installed, fs)
           IN  /\ fs' = r.fs
               /\ last' = Call("items", "", r)
        /\ UNCHANGED <<installed, args, content>>

Exists ==
    \E identifier \in Identifiers, n \in TmpNames, status \in ExitStatuses,
       wrote \in BOOLEAN :
        /\ TmpDir(n) \notin fs
        /\ LET r == exists(identifier, n, status, wrote, installed, fs)
           IN  /\ fs' = r.fs
               /\ last' = Call("exists", identifier, r)
        /\ UNCHANGED <<installed, args, content>>

\* The identifier of the profile document stored at a path: the caller wrote
\* there what generate returned for that identifier.
ProfileAt(path) ==
    IF path = "/tmp/a.mobileconfig" THEN "com.example.a" ELSE "com.example.b"

\* What '/usr/bin/profiles -I -F path' does to the listing when it exits 0: the
\* profile is listed afterwards, at the computer level (the module runs as
\* root); a profile listed already is replaced where it is.
AfterInstall(inventory, identifier) ==
    IF \E d \in DOMAIN inventory :
           \E i \in 1..Len(inventory[d]) :
               inventory[d][i]["ProfileIdentifier"] = Str(identifier)
    THEN inventory
    ELSE LET record == "ProfileIdentifier" :> Str(identifier)
             before == IF "_computerlevel" \in DOMAIN inventory
                       THEN inventory["_computerlevel"] ELSE <<>>
         IN  ("_computerlevel" :> Append(before, record)) @@ inventory

\* What '/usr/bin/profiles -R -p identifier' does to the listing when it exits
\* 0: no record with that identifier is listed afterwards.
AfterRemove(inventory, identifier) ==
    [d \in DOMAIN inventory |->
        SelectSeq(inventory[d],
                  LAMBDA r : r["ProfileIdentifier"] # Str(identifier))]

Install ==
    \E path \in Paths, status \in ExitStatuses :
        /\ last' = Call("install", path, install(path, status))
        /\ installed' = IF status = 0
                        THEN AfterInstall(installed, ProfileAt(path))
                        ELSE installed
        /\ UNCHANGED <<fs, args, content>>

Remove ==
    \E identifier \in Identifiers, status \in ExitStatuses :
        /\ last' = Call("remove", identifier, remove(identifier, status))
        /\ installed' = IF status = 0
                        THEN AfterRemove(installed, identifier)
                        ELSE installed
        /\ UNCHANGED <<fs, args, content>>

\* A call generate(a.identifier, a.profile_uuid, **kwargs), the caller's list
\* being passed as content when a.ckind = "list".  uuid4 is drawn only when
\* the call reaches uuid.uuid4().
Generate(a) ==
    \E uuid4 \in IF Truthy(a.profile_uuid)
                 THEN {CHOOSE u \in RandomUUIDs : TRUE} ELSE RandomUUIDs :
        LET r == generate(a.identifier, a.profile_uuid, uuid4, a.options,
                          a.ckind # "absent",
                          [isNone |-> a.ckind = "none", items |-> content])
        IN  /\ last' = Call("generate", a.identifier,
                            [profile_uuid |-> a.profile_uuid,
                             options |-> a.options, ckind |-> a.ckind,
                             input |-> content] @@ r)
            /\ content' = r.items
            /\ UNCHANGED <<fs, installed, args>>

\* The command wrappers on a machine with some profiles installed; generate is
\* called without a content list.
Init ==
    /\ fs = {}
    /\ installed \in Inventories
    /\ args = NoArgs
    /\ content = <<>>
    /\ last = NoCall

GenerateBare ==
    \E a \in GenerateArgs({EmptyDict}, {"absent"}) : Generate(a)

Next == Items \/ Exists \/ Install \/ Remove \/ GenerateBare

Spec == Init /\ [][Next]_vars

\* The document builder and the content transformer: a caller that has built
\* its arguments and its content list and calls generate with them, any number
\* of times.
InitDoc ==
    /\ fs = {}
    /\ installed = EmptyDict
    /\ args \in GenerateArgs(OptionInputs, {"absent", "none", "list"})
    /\ content \in IF args.ckind = "list" THEN ContentLists ELSE {<<>>}
    /\ last = NoCall

GenerateArgsCall == Generate(args)

NextDoc == GenerateArgsCall

SpecDoc == InitDoc /\ [][NextDoc]_vars

----------------------------------------------------------------------------
(* Properties *)

IsGenerate == last.op = "generate"
Returned == last.outcome = "return"
Raised == last.outcome = "raise"

\* C1: when a call of items() finishes, by returning or by raising, the
\* temporary directory it created and the file inside it no longer exist.
C1_TempRemovedOnEveryPath ==
    last.op = "items" =>
        /\ last.tmpdir \notin fs
        /\ (last.tmpdir \o "/profiles.plist") \notin fs

\* C2: a payload of type com.apple.DirectoryService.managed is transformed
\* without error, and for each of its keys K that is in the allow-list the
\* transformed payload has the key K + "Flag" with value true.
C2_FlagKeysAdded ==
    (IsGenerate /\ last.ckind = "list") =>
        \A i \in 1..Len(last.input) :
            last.input[i]["PayloadType"] = Str(DirectoryServiceType) =>
                \A K \in DOMAIN last.input[i] \cap Range(needs_flag) :
                    /\ Returned
                    /\ Has(content[i], K \o "Flag")
                    /\ content[i][K \o "Flag"] = True

\* the payloads that agree with p on every key other than PayloadUUID
UUIDVariants(p) ==
    {Del(p, "PayloadUUID")}
        \cup { Put(p, "PayloadUUID", Str(u)) :
                 u \in {StaleUUID, "ffffffff-ffff-ffff-ffff-ffffffffffff"} }

\* C3: the PayloadUUID a payload was given is the one any payload that agrees
\* with it on every key other than PayloadUUID is given, under any owner
\* identifier.
C3_UUIDFromContentAlone ==
    (IsGenerate /\ last.ckind = "list") =>
        \A i \in 1..last.entered :
            \A q \in UUIDVariants(last.input[i]) :
                \A owner \in Identifiers :
                    content[i]["PayloadUUID"]
                        = _transform_payload(q, owner).payload["PayloadUUID"]

\* a payload that came with a PayloadUUID was transformed and has another one
C3_Witness ==
    /\ IsGenerate /\ last.ckind = "list"
    /\ \E i \in 1..last.entered :
           /\ Has(last.input[i], "PayloadUUID")
           /\ last.input[i]["PayloadUUID"] = Str(StaleUUID)
           /\ content[i]["PayloadUUID"] # Str(StaleUUID)

DocumentKeys ==
    {"PayloadScope", "PayloadUUID", "PayloadVersion", "PayloadType",
     "PayloadIdentifier", "PayloadDescription", "PayloadDisplayName",
     "PayloadOrganization", "PayloadContent", "PayloadRemovalDisallowed"}

\* C4: the keys of a generated document are among the ten document keys,
\* whatever options were passed, and a call fails only over its content list,
\* never over an option.
C4_OnlyDocumentKeys ==
    IsGenerate =>
        /\ Returned \/ Raised
        /\ Returned => DOMAIN last.document \subseteq DocumentKeys
        /\ Raised => last.ckind = "list"

\* a document was generated from orchestration keys, an unrecognized option
\* and the options without a transformation
C4_Witness ==
    /\ IsGenerate /\ Returned
    /\ {"require", "order", "unrecognized", "scope"}
           \subseteq DOMAIN last.options

BaseFields ==
    /\ last.document["PayloadScope"] = Str("System")
    /\ last.document["PayloadVersion"] = IntV("1")
    /\ last.document["PayloadType"] = Str("Configuration")
    /\ last.document["PayloadIdentifier"] = Str(last.arg)

\* C5 as stated: a generated document has the base fields, and its PayloadUUID
\* is the profile_uuid argument whenever one was passed.
C5_SuppliedUUIDVerbatim ==
    (IsGenerate /\ Returned) =>
        /\ BaseFields
        /\ last.profile_uuid # None =>
               last.document["PayloadUUID"] = last.profile_uuid

\* C5 amended: a generated document has the base fields; its PayloadUUID is the
\* profile_uuid argument whenever a non-empty one was passed, and a value of
\* uuid.uuid4() when the argument was None or the empty string.
C5_NonEmptyUUIDVerbatim ==
    (IsGenerate /\ Returned) =>
        /\ BaseFields
        /\ Truthy(last.profile_uuid) =>
               last.document["PayloadUUID"] = last.profile_uuid
        /\ ~Truthy(last.profile_uuid) =>
               last.document["PayloadUUID"] \in {Str(u) : u \in RandomUUIDs}

\* a document was generated from a supplied profile_uuid and the options scope,
\* removaldate, durationuntilremoval and consenttext
C5_Witness ==
    /\ IsGenerate /\ Returned
    /\ last.profile_uuid = Str(SuppliedUUID)
    /\ {"scope", "removaldate", "durationuntilremoval", "consenttext"}
           \subseteq DOMAIN last.options

\* some record of some domain of the inventory has this ProfileIdentifier
Listed(inventory, identifier) ==
    \E d \in DOMAIN inventory :
        \E i \in 1..Len(inventory[d]) :
            inventory[d][i]["ProfileIdentifier"] = Str(identifier)

\* C6: exists(identifier) returns true if some record of some domain of the
\* inventory has that ProfileIdentifier and false if none has (so false for an
\* empty inventory); when the listing fails it raises the error of items().
C6_ExistsIffListed ==
    last.op = "exists" =>
        /\ Returned \/ Raised
        /\ last.statuses # << 0 >> => Raised
        /\ Returned =>
               /\ last.profiles = installed
               /\ last.ret = IF Listed(installed, last.arg) THEN True ELSE False
        /\ Raised =>
               /\ last.ret = None
               /\ last.error =
                      IF last.statuses = << 0 >> THEN "IOError"
                      ELSE "Failed to read profiles or write to temporary file"

\* exists returned true for a record that is not the first of its list
C6_Witness ==
    /\ last.op = "exists" /\ Returned /\ last.ret = True
    /\ \A d \in DOMAIN installed :
           Len(installed[d]) > 0 =>
               installed[d][1]["ProfileIdentifier"] # Str(last.arg)

\* C7: install and remove return true exactly when their command exits with
\* status 0 and raise the execution error, whose message ends with the path or
\* identifier, exactly when it does not.
C7_TrueOrExecutionError ==
    last.op \in {"install", "remove"} =>
        /\ Returned \/ Raised
        /\ Returned <=> last.statuses[1] = 0
        /\ Returned => last.ret = True
        /\ Raised =>
               /\ last.ret = None
               /\ last.error =
                      (IF last.op = "install"
                       THEN "Failed to install profile at path: "
                       ELSE "Failed to remove profile with identifier: ")
                          \o last.arg

\* install raised over a non-zero exit status
C7_Witness ==
    /\ last.op = "install" /\ Raised /\ last.statuses = << 1 >>

\* C8: the transformer returns one payload per payload of its input, in order,
\* each with the input's other keys, PayloadEnabled true, PayloadVersion 1, a
\* PayloadUUID, and the input's PayloadIdentifier or else owner + "." + uuid.
C8_OnePayloadPerInput ==
    (IsGenerate /\ last.ckind \in {"list", "none"}) =>
        /\ Returned
        /\ LET out == last.document["PayloadContent"][2]
           IN  /\ Len(out) = Len(last.input)
               /\ \A i \in 1..Len(out) :
                      /\ out[i]["PayloadEnabled"] = True
                      /\ out[i]["PayloadVersion"] = IntV("1")
                      /\ Has(out[i], "PayloadUUID")
                      /\ out[i]["PayloadType"] = last.input[i]["PayloadType"]
                      /\ out[i]["PayloadIdentifier"] =
                             IF Has(last.input[i], "PayloadIdentifier")
                             THEN last.input[i]["PayloadIdentifier"]
                             ELSE Str(last.arg \o "."
                                        \o out[i]["PayloadUUID"][2])

\* C9: a call of generate that follows a call that returned, with the same
\* arguments and the same content list, returns the same document.
C9_SameDocumentAgain ==
    [][ ( /\ IsGenerate /\ Returned /\ last.ckind = "list"
          /\ Truthy(last.profile_uuid)
          /\ last'.op = "generate"
          /\ last'.arg = last.arg
          /\ last'.profile_uuid = last.profile_uuid
          /\ last'.options = last.options
          /\ last'.ckind = "list" )
        => (last'.outcome = "return" /\ last'.ret = last.ret) ]_vars

\* C10: a call of items or exists runs the listing command once and nothing
\* else, a call of install or remove runs its own command once, also when the
\* command fails, and a call of generate runs no command.
C10_OneCommandPerCall ==
    /\ last.op \in {"items", "exists"} =>
           last.cmds
             = << "/usr/bin/profiles -P -o " \o last.tmpdir \o "/profiles.plist" >>
    /\ last.op = "install" =>
           last.cmds = << "/usr/bin/profiles -I -F " \o last.arg >>
    /\ last.op = "remove" =>
           last.cmds = << "/usr/bin/profiles -R -p " \o last.arg >>
    /\ last.op = "generate" => last.cmds = <<>>
    /\ last.op # "none" => Len(last.statuses) = Len(last.cmds)

\* remove ran its command once and raised over its exit status
C10_Witness ==
    /\ last.op = "remove" /\ Raised
    /\ Len(last.cmds) = 1 /\ last.statuses = << 1 >>

====
